---- MODULE Spec2Model ----
(***************************************************************************)
(* Model of TokenBalanceTracker (src/main.py): the chunked scan of the     *)
(* look-back window, the concurrent fetch of the chunks, the balance       *)
(* ledger folded from Transfer logs, the top-N ranking and the             *)
(* last-activity scan.                                                     *)
(*                                                                         *)
(* Representation.  A 32-byte topic word is a pair <<high 12 bytes, low 20 *)
(* bytes>>, each part a natural number.  An address string                 *)
(* ('0x' + 40 hex digits) is the natural number its digits denote.  The    *)
(* data field of a log is a sequence of bytes.  A dict is a sequence of    *)
(* <<key, value>> pairs in insertion order, as dict.items() yields them.   *)
(* Python's None is the value None, which is no block number.              *)
(***************************************************************************)
EXTENDS Integers, Sequences, FiniteSets, TLC

\* ---------------------------------------------------------------- constants

BLOCK_RANGE == 50000

WINDOW == 1000000

ZERO_ADDRESS == 0

\* top_n: int = 10
DEFAULT_TOP_N == 10

None == -1

TRANSFER_EVENT_SIGNATURE == <<221, 242>>

\* ------------------------------------------------------------------- bounds

\* get_last_block answers k * BLOCK_RANGE + d for k in 0..MaxHeadChunks
MaxHeadChunks == 22

\* the same for the runs that fetch the chunks
MaxScanChunks == 2

\* non-zero addresses 1..NumHolders
NumHolders == 2

\* longest event list given to calculate_balances
MaxEvents == 2

\* most logs the backend holds
MaxChainLen == 2

\* largest top_n
MaxTopN == 2

\* ------------------------------------------------------------------ helpers

Max(a, b) == IF a >= b THEN a ELSE b

Min(a, b) == IF a <= b THEN a ELSE b

Range(s) == {s[i] : i \in 1..Len(s)}

VARIABLES
    head,                   \* backend: number of the newest block
    chain,                  \* backend: the Transfer logs of the contract
    op,                     \* the method called: "top" or "last"
    top_n,                  \* argument of get_top_balances
    address,                \* argument of get_last_transaction_date
    pc,                     \* position of the call
    latest_block,
    start_block,
    end_block_limit,
    tasks,                  \* the get_transfer_events calls made, in order
    results,                \* the outcome of each of them, in the same order
    all_events,
    balances,
    last_transaction_block,
    lookups,                \* the web3.eth.get_block calls made and their outcomes
    ret,                    \* what the call returned
    caller,                 \* "dates" inside get_top_balances_with_dates, else "none"
    top_balances,           \* get_top_balances_with_dates: the ranking it got
    dates                   \* get_top_balances_with_dates: the dates it got so far

vars == <<head, chain, op, top_n, address, pc, latest_block,
          start_block, end_block_limit, tasks, results, all_events, balances,
          last_transaction_block, lookups, ret, caller, top_balances, dates>>

outer == <<caller, top_balances, dates>>

backend == <<head, chain>>

args == <<op, top_n, address>>

\* ------------------------------------------------------------ get_last_block

GetLastBlockOk ==
    /\ pc = "start"
    /\ latest_block' = head
    /\ start_block' = head
    /\ end_block_limit' = Max(head - WINDOW, 0)
    /\ pc' = IF op = "top" THEN "partition" ELSE "lt_loop"
    /\ UNCHANGED <<backend, args, outer, tasks, results, all_events, balances,
                   last_transaction_block, lookups, ret>>

GetLastBlockFail ==
    /\ pc = "start"
    /\ pc' = "raised"
    /\ UNCHANGED <<backend, args, outer, latest_block, start_block, end_block_limit,
                   tasks, results, all_events, balances,
                   last_transaction_block, lookups, ret>>

\* ------------------------------------------- get_all_transfer_events: chunks

\* a chunk one block too wide
ChunkEnd_TooWide(start, limit) == Max(start - BLOCK_RANGE, limit)

ChunkEnd(start, limit) == Max(start - BLOCK_RANGE + 1, limit)

NextStart(end_block) == end_block - 1

\* '>=' for '>': the loop runs once more at the floor
LoopCond_Inclusive(start, limit) == start >= limit

LoopCond(start, limit) == start > limit

PartitionIter ==
    /\ pc = "partition"
    /\ LoopCond(start_block, end_block_limit)
    /\ LET end_block == ChunkEnd(start_block, end_block_limit)
       IN /\ tasks' = Append(tasks, [fromBlock |-> end_block, toBlock |-> start_block])
          /\ start_block' = NextStart(end_block)
    /\ UNCHANGED <<backend, args, outer, pc, latest_block, end_block_limit, results,
                   all_events, balances, last_transaction_block, lookups, ret>>

PartitionExit ==
    /\ pc = "partition"
    /\ ~LoopCond(start_block, end_block_limit)
    /\ results' = [i \in 1..Len(tasks) |-> [state |-> "pending", logs |-> <<>>]]
    /\ pc' = "gather"
    /\ UNCHANGED <<backend, args, outer, latest_block, start_block, end_block_limit,
                   tasks, all_events, balances, last_transaction_block,
                   lookups, ret>>

\* ------------------------------------------------------- get_transfer_events

\* web3.eth.get_logs: the contract's Transfer logs of the blocks lo..hi
RECURSIVE LogsBetween(_, _, _)
LogsBetween(logs, lo, hi) ==
    IF Len(logs) = 0 THEN <<>>
    ELSE (IF lo <= logs[1].blockNumber /\ logs[1].blockNumber <= hi
          THEN <<logs[1]>> ELSE <<>>) \o LogsBetween(Tail(logs), lo, hi)

get_transfer_events(start, end) == LogsBetween(chain, start, end)

Pending(i) == results[i].state = "pending"

\* one task of the gather returns its logs
FetchOk ==
    /\ pc = "gather"
    /\ \E i \in 1..Len(tasks) :
        /\ Pending(i)
        /\ results' = [results EXCEPT ![i] =
              [state |-> "ok",
               logs |-> get_transfer_events(tasks[i].fromBlock, tasks[i].toBlock)]]
    /\ UNCHANGED <<backend, args, outer, pc, latest_block, start_block, end_block_limit,
                   tasks, all_events, balances, last_transaction_block,
                   lookups, ret>>

\* one task of the gather raises: get_logs failed and the except clause re-raises
FetchFail ==
    /\ pc = "gather"
    /\ \E i \in 1..Len(tasks) :
        /\ Pending(i)
        /\ results' = [results EXCEPT ![i] = [state |-> "error", logs |-> <<>>]]
    /\ UNCHANGED <<backend, args, outer, pc, latest_block, start_block, end_block_limit,
                   tasks, all_events, balances, last_transaction_block,
                   lookups, ret>>

\* ------------------------------------------ get_all_transfer_events: the join

\* the for loop over results from result i on: an exception is logged, a list
\* of logs is appended
RECURSIVE ExtendAll(_, _, _)
ExtendAll(rs, i, events) ==
    IF i > Len(rs) THEN events
    ELSE ExtendAll(rs, i + 1,
            IF rs[i].state = "error" THEN events ELSE events \o rs[i].logs)

\* return_exceptions=True forgotten: the first exception among the results is
\* raised out of the gather
Join_RaiseOnError ==
    /\ pc = "gather"
    /\ \A i \in 1..Len(tasks) : ~Pending(i)
    /\ IF \E i \in 1..Len(tasks) : results[i].state = "error"
       THEN pc' = "raised" /\ UNCHANGED all_events
       ELSE pc' = "calc" /\ all_events' = ExtendAll(results, 1, all_events)
    /\ UNCHANGED <<backend, args, outer, latest_block, start_block, end_block_limit,
                   tasks, results, balances, last_transaction_block,
                   lookups, ret>>

\* the gather waits for the first task only (FIRST_COMPLETED for wait-for-all)
Join_FirstCompleted ==
    /\ pc = "gather"
    /\ \E i \in 1..Len(tasks) : ~Pending(i)
    /\ all_events' = ExtendAll(results, 1, all_events)
    /\ pc' = "calc"
    /\ UNCHANGED <<backend, args, outer, latest_block, start_block, end_block_limit,
                   tasks, results, balances, last_transaction_block,
                   lookups, ret>>

\* gather(*tasks, return_exceptions=True) resumes when no task is pending
Join ==
    /\ pc = "gather"
    /\ \A i \in 1..Len(tasks) : ~Pending(i)
    /\ all_events' = ExtendAll(results, 1, all_events)
    /\ pc' = "calc"
    /\ UNCHANGED <<backend, args, outer, latest_block, start_block, end_block_limit,
                   tasks, results, balances, last_transaction_block,
                   lookups, ret>>

\* the caller's task is cancelled while it waits at the gather: the swallowing
\* variant, where the CancelledError is caught and the loop over the results
\* runs on what has arrived
Cancel_KeepsPartial ==
    /\ pc = "gather"
    /\ results' = [i \in 1..Len(results) |->
                     IF Pending(i) THEN [state |-> "cancelled", logs |-> <<>>]
                     ELSE results[i]]
    /\ all_events' = ExtendAll(results, 1, all_events)
    /\ pc' = "calc"
    /\ UNCHANGED <<backend, args, outer, latest_block, start_block, end_block_limit,
                   tasks, balances, last_transaction_block, lookups, ret>>

\* the caller's task is cancelled while it waits at the gather: the gather
\* cancels every task that has not completed, CancelledError is no Exception
\* for the except clause of get_transfer_events, and nothing around the await
\* catches it, so it leaves get_all_transfer_events and get_top_balances
Cancel ==
    /\ pc = "gather"
    /\ results' = [i \in 1..Len(results) |->
                     IF Pending(i) THEN [state |-> "cancelled", logs |-> <<>>]
                     ELSE results[i]]
    /\ pc' = "cancelled"
    /\ UNCHANGED <<backend, args, outer, latest_block, start_block, end_block_limit,
                   tasks, all_events, balances, last_transaction_block,
                   lookups, ret>>

\* ------------------------------------------------------------- log decoding

\* '0x' + word.hex()[26:]: the low 20 bytes of a 32-byte topic word
AddressOf(word) == word[2]

\* int(data.hex(), 16): the bytes read as a big-endian number
RECURSIVE IntOfBytes(_)
IntOfBytes(data) ==
    IF Len(data) = 0 THEN 0
    ELSE IntOfBytes(SubSeq(data, 1, Len(data) - 1)) * 256 + data[Len(data)]

\* event['topics'][1] and event['topics'][2] exist (topics[0] is the signature)
HasAddressTopics(event) == Len(event.topics) >= 3

\* int('0x', 16) raises ValueError
HasValue(event) == Len(event.data) > 0

FromAddress(event) == AddressOf(event.topics[2])

ToAddress(event) == AddressOf(event.topics[3])

ValueOf(event) == IntOfBytes(event.data)

\* ------------------------------------------------------- calculate_balances

Keys(d) == {d[i][1] : i \in 1..Len(d)}

IndexOf(d, key) == CHOOSE i \in 1..Len(d) : d[i][1] = key

\* d[key] of a defaultdict(int): a missing key reads as 0
Get(d, key) == IF key \in Keys(d) THEN d[IndexOf(d, key)][2] ELSE 0

\* d[key] = value: a new key goes to the end, an old key keeps its place
Put(d, key, value) ==
    IF key \in Keys(d)
    THEN [d EXCEPT ![IndexOf(d, key)] = <<key, value>>]
    ELSE Append(d, <<key, value>>)

\* the sender is debited even when it is the zero address
Debit_NoZeroCheck(d, from_address, value) ==
    Put(d, from_address, Get(d, from_address) - value)

\* the sender is credited: '+=' for '-='
Debit_Adds(d, from_address, value) ==
    IF from_address # ZERO_ADDRESS
    THEN Put(d, from_address, Get(d, from_address) + value)
    ELSE d

Debit(d, from_address, value) ==
    IF from_address # ZERO_ADDRESS
    THEN Put(d, from_address, Get(d, from_address) - value)
    ELSE d

\* '=' for '+=': the receiver's balance is overwritten
Credit_Overwrite(d, to_address, value) ==
    IF to_address # ZERO_ADDRESS THEN Put(d, to_address, value) ELSE d

\* the receiver is credited even when it is the zero address
Credit_NoZeroCheck(d, to_address, value) ==
    Put(d, to_address, Get(d, to_address) + value)

Credit(d, to_address, value) ==
    IF to_address # ZERO_ADDRESS
    THEN Put(d, to_address, Get(d, to_address) + value)
    ELSE d

ApplyEvent(d, event) ==
    Credit(Debit(d, FromAddress(event), ValueOf(event)),
           ToAddress(event), ValueOf(event))

\* the for loop from event i on; an event that cannot be decoded raises
RECURSIVE FoldEvents(_, _, _)
FoldEvents(events, i, d) ==
    IF i > Len(events) THEN [raised |-> FALSE, balances |-> d]
    ELSE IF ~(HasAddressTopics(events[i]) /\ HasValue(events[i]))
    THEN [raised |-> TRUE, balances |-> <<>>]
    ELSE FoldEvents(events, i + 1, ApplyEvent(d, events[i]))

calculate_balances(events) == FoldEvents(events, 1, <<>>)

CalculateBalances ==
    /\ pc = "calc"
    /\ LET r == calculate_balances(all_events)
       IN /\ balances' = r.balances
          /\ pc' = IF r.raised THEN "raised" ELSE "sort"
    /\ UNCHANGED <<backend, args, outer, latest_block, start_block, end_block_limit,
                   tasks, results, all_events, last_transaction_block,
                   lookups, ret>>

\* --------------------------------------------------------- get_top_balances

\* reverse=True forgotten: smallest first
InsertDesc_Ascending(sorted, x) ==
    LET n == Cardinality({i \in 1..Len(sorted) : sorted[i][2] <= x[2]})
    IN SubSeq(sorted, 1, n) \o <<x>> \o SubSeq(sorted, n + 1, Len(sorted))

\* x goes in front of the items of its own balance: ties come out reversed
InsertDesc_TiesReversed(sorted, x) ==
    LET n == Cardinality({i \in 1..Len(sorted) : sorted[i][2] > x[2]})
    IN SubSeq(sorted, 1, n) \o <<x>> \o SubSeq(sorted, n + 1, Len(sorted))

\* x goes behind every item whose balance is at least its own
InsertDesc(sorted, x) ==
    LET n == Cardinality({i \in 1..Len(sorted) : sorted[i][2] >= x[2]})
    IN SubSeq(sorted, 1, n) \o <<x>> \o SubSeq(sorted, n + 1, Len(sorted))

\* sorted(items, key=lambda x: x[1], reverse=True): stable, largest first
RECURSIVE SortedDesc(_)
SortedDesc(items) ==
    IF Len(items) = 0 THEN <<>>
    ELSE InsertDesc(SortedDesc(SubSeq(items, 1, Len(items) - 1)), items[Len(items)])

\* s[:n]
SlicePrefix(s, n) ==
    IF n >= 0 THEN SubSeq(s, 1, Min(n, Len(s)))
    ELSE SubSeq(s, 1, Max(Len(s) + n, 0))

SortTop ==
    /\ pc = "sort"
    /\ ret' = SlicePrefix(SortedDesc(balances), top_n)
    /\ pc' = "done"
    /\ UNCHANGED <<backend, args, outer, latest_block, start_block, end_block_limit,
                   tasks, results, all_events, balances,
                   last_transaction_block, lookups>>

\* ------------------------------------------------ get_last_transaction_date

\* the truth value Python gives a block number or None
Truthy(x) == x # None /\ x # 0

\* x or 0
OrZero(x) == IF Truthy(x) THEN x ELSE 0

\* the address test forgotten: every log counts
Matches_Every(addr, log) == TRUE

Matches(addr, log) == addr = FromAddress(log) \/ addr = ToAddress(log)

\* the for loop over logs from log i on; a log without its address topics
\* raises IndexError inside the try
RECURSIVE ScanLogs(_, _, _, _)
ScanLogs(logs, i, addr, last) ==
    IF i > Len(logs) THEN [raised |-> FALSE, last |-> last]
    ELSE IF ~HasAddressTopics(logs[i]) THEN [raised |-> TRUE, last |-> last]
    ELSE ScanLogs(logs, i + 1, addr,
            IF Matches(addr, logs[i])
            THEN Max(OrZero(last), logs[i].blockNumber)
            ELSE last)

\* the while test holds: the next chunk is asked for
LastIter ==
    /\ pc = "lt_loop"
    /\ LoopCond(start_block, end_block_limit)
    /\ LET end_block == ChunkEnd(start_block, end_block_limit)
       IN /\ tasks' = Append(tasks, [fromBlock |-> end_block, toBlock |-> start_block])
          /\ results' = Append(results, [state |-> "pending", logs |-> <<>>])
    /\ pc' = "lt_fetch"
    /\ UNCHANGED <<backend, args, outer, latest_block, start_block, end_block_limit,
                   all_events, balances, last_transaction_block, lookups, ret>>

\* the while test fails
LastExit ==
    /\ pc = "lt_loop"
    /\ ~LoopCond(start_block, end_block_limit)
    /\ pc' = "lt_resolve"
    /\ UNCHANGED <<backend, args, outer, latest_block, start_block, end_block_limit,
                   tasks, results, all_events, balances,
                   last_transaction_block, lookups, ret>>

\* the chunk's logs arrive and are searched; an exception in the search is
\* caught by the same except clause as a failed fetch
LastFetchOk ==
    /\ pc = "lt_fetch"
    /\ LET chunk == tasks[Len(tasks)]
           logs == get_transfer_events(chunk.fromBlock, chunk.toBlock)
           scan == ScanLogs(logs, 1, address, last_transaction_block)
       IN /\ results' = [results EXCEPT ![Len(tasks)] = [state |-> "ok", logs |-> logs]]
          /\ last_transaction_block' = scan.last
          /\ IF scan.raised
             THEN pc' = "lt_resolve" /\ UNCHANGED start_block
             ELSE pc' = "lt_loop" /\ start_block' = NextStart(chunk.fromBlock)
    /\ UNCHANGED <<backend, args, outer, latest_block, end_block_limit, tasks,
                   all_events, balances, lookups, ret>>

\* the fetch raises: the error is logged and the loop is left
LastFetchFail ==
    /\ pc = "lt_fetch"
    /\ results' = [results EXCEPT ![Len(tasks)] = [state |-> "error", logs |-> <<>>]]
    /\ pc' = "lt_resolve"
    /\ UNCHANGED <<backend, args, outer, latest_block, start_block, end_block_limit,
                   tasks, all_events, balances, last_transaction_block,
                   lookups, ret>>

\* block_info['timestamp'] of a block: two seconds a block
BlockTimestamp(block) == 1590824836 + 2 * block

\* datetime.fromtimestamp(ts, timezone.utc).isoformat()
IsoFormat(ts) == <<"iso", ts>>

NA == <<"N/A">>

\* if last_transaction_block: the block is looked up, else 'N/A' is returned
LastResolve ==
    /\ pc = "lt_resolve"
    /\ IF Truthy(last_transaction_block)
       THEN /\ lookups' = Append(lookups, [block |-> last_transaction_block,
                                            state |-> "pending"])
            /\ pc' = "lt_block"
            /\ UNCHANGED ret
       ELSE /\ ret' = NA
            /\ pc' = "done"
            /\ UNCHANGED lookups
    /\ UNCHANGED <<backend, args, outer, latest_block, start_block, end_block_limit,
                   tasks, results, all_events, balances, last_transaction_block>>

GetBlockOk ==
    /\ pc = "lt_block"
    /\ lookups' = [lookups EXCEPT ![Len(lookups)].state = "ok"]
    /\ ret' = IsoFormat(BlockTimestamp(last_transaction_block))
    /\ pc' = "done"
    /\ UNCHANGED <<backend, args, outer, latest_block, start_block, end_block_limit,
                   tasks, results, all_events, balances,
                   last_transaction_block>>

\* get_block raises and nothing catches it
GetBlockFail_Raises ==
    /\ pc = "lt_block"
    /\ lookups' = [lookups EXCEPT ![Len(lookups)].state = "error"]
    /\ pc' = "raised"
    /\ UNCHANGED <<backend, args, outer, latest_block, start_block,
                   end_block_limit, tasks, results, all_events, balances,
                   last_transaction_block, ret>>

GetBlockFail ==
    /\ pc = "lt_block"
    /\ lookups' = [lookups EXCEPT ![Len(lookups)].state = "error"]
    /\ ret' = NA
    /\ pc' = "done"
    /\ UNCHANGED <<backend, args, outer, latest_block, start_block, end_block_limit,
                   tasks, results, all_events, balances,
                   last_transaction_block>>

\* ---------------------------------------------- get_top_balances_with_dates
\* The get_last_transaction_date calls of the gather share no state, so what
\* each returns does not depend on how they interleave: they are run one after
\* the other, in the order of top_balances.

\* top_balances = await self.get_top_balances(top_n)
DatesTopReturned ==
    /\ caller = "dates"
    /\ op = "top"
    /\ pc = "done"
    /\ top_balances' = ret
    /\ dates' = <<>>
    /\ pc' = "wd_gather"
    /\ UNCHANGED <<backend, args, caller, latest_block, start_block,
                   end_block_limit, tasks, results, all_events, balances,
                   last_transaction_block, lookups, ret>>

\* the next get_last_transaction_date(address) of the list starts
DatesStartNext ==
    /\ pc = "wd_gather"
    /\ Len(dates) < Len(top_balances)
    /\ op' = "last"
    /\ address' = top_balances[Len(dates) + 1][1]
    /\ pc' = "start"
    /\ latest_block' = 0
    /\ start_block' = 0
    /\ end_block_limit' = 0
    /\ tasks' = <<>>
    /\ results' = <<>>
    /\ all_events' = <<>>
    /\ balances' = <<>>
    /\ last_transaction_block' = None
    /\ ret' = <<>>
    /\ UNCHANGED <<backend, top_n, outer, lookups>>

\* it has returned its date
DatesCollect ==
    /\ caller = "dates"
    /\ op = "last"
    /\ pc = "done"
    /\ dates' = Append(dates, ret)
    /\ pc' = "wd_gather"
    /\ UNCHANGED <<backend, args, caller, top_balances, latest_block,
                   start_block, end_block_limit, tasks, results, all_events,
                   balances, last_transaction_block, lookups, ret>>

\* [(address, balance, date) for (address, balance), date in zip(...)]
Rows(pairs, ds) ==
    [k \in 1..Min(Len(pairs), Len(ds)) |-> <<pairs[k][1], pairs[k][2], ds[k]>>]

\* the gather has every date: the rows are returned
DatesReturn ==
    /\ pc = "wd_gather"
    /\ Len(dates) = Len(top_balances)
    /\ ret' = Rows(top_balances, dates)
    /\ pc' = "wd_done"
    /\ UNCHANGED <<backend, args, outer, latest_block, start_block,
                   end_block_limit, tasks, results, all_events, balances,
                   last_transaction_block, lookups>>

\* --------------------------------------------------------------- the inputs

HolderWords == {<<0, a>> : a \in 0..NumHolders}

\* amounts 1 and 2, one byte each
Datas == {<<1>>, <<2>>}

TransferLog(from_word, to_word, data, block) ==
    [topics |-> <<TRANSFER_EVENT_SIGNATURE, from_word, to_word>>,
     data |-> data, blockNumber |-> block]

\* a sender word whose high 12 bytes are not zero, and a two-byte amount
OddLogs(block) ==
    {TransferLog(<<1, 0>>, <<0, 1>>, <<1>>, block),
     TransferLog(<<0, 1>>, <<1, 2>>, <<1, 0>>, block)}

\* a log one topic short, and a log with no data
MalformedLogs(block) ==
    {[topics |-> <<TRANSFER_EVENT_SIGNATURE, <<0, 1>>>>, data |-> <<1>>,
      blockNumber |-> block],
     [topics |-> <<TRANSFER_EVENT_SIGNATURE, <<0, 1>>, <<0, 1>>>>,
      data |-> <<>>, blockNumber |-> block]}

LogsAt(block) ==
    {TransferLog(f, t, d, block) :
        f \in HolderWords, t \in HolderWords, d \in Datas}
    \cup OddLogs(block)
    \cup MalformedLogs(block)

SeqsUpTo(S, n) == UNION {[1..k -> S] : k \in 0..n}

\* the logs the runs that fetch the chunks draw from: a transfer, a mint and
\* the two malformed logs
ScanLogsAt(block) ==
    {TransferLog(<<0, 1>>, <<0, 2>>, <<1>>, block),
     TransferLog(<<0, 0>>, <<0, 1>>, <<2>>, block)}
    \cup MalformedLogs(block)

\* block numbers of the logs: the genesis block, a block of the oldest chunk
\* and the last block of the first full chunk
LogBlocks == {0, 5, BLOCK_RANGE}

Chains(newest) ==
    {c \in SeqsUpTo(UNION {ScanLogsAt(b) : b \in {x \in LogBlocks : x <= newest}},
                    MaxChainLen) :
        \A i \in 1..(Len(c) - 1) : c[i].blockNumber <= c[i + 1].blockNumber}

\* ------------------------------------------------------------ specifications

Heads(maxChunks, offsets) ==
    {k * BLOCK_RANGE + d : k \in 0..maxChunks, d \in offsets}

InitCall ==
    /\ pc = "start"
    /\ latest_block = 0
    /\ start_block = 0
    /\ end_block_limit = 0
    /\ tasks = <<>>
    /\ results = <<>>
    /\ all_events = <<>>
    /\ balances = <<>>
    /\ last_transaction_block = None
    /\ lookups = <<>>
    /\ ret = <<>>
    /\ top_balances = <<>>
    /\ dates = <<>>

InitPartition ==
    /\ caller = "none"
    /\ head \in Heads(MaxHeadChunks, {0, 1, 12345, BLOCK_RANGE - 1})
    /\ chain = <<>>
    /\ op = "top"
    /\ top_n = DEFAULT_TOP_N
    /\ address = ZERO_ADDRESS
    /\ InitCall

NextPartition ==
    \/ GetLastBlockOk
    \/ GetLastBlockFail
    \/ PartitionIter
    \/ PartitionExit

SpecPartition == InitPartition /\ [][NextPartition]_vars

\* the loop has no await: it runs to its end
SpecPartitionLive == SpecPartition /\ WF_vars(NextPartition)

InitLedger ==
    /\ caller = "none"
    /\ head = 1
    /\ chain = <<>>
    /\ op = "top"
    /\ top_n \in -1..MaxTopN
    /\ address = ZERO_ADDRESS
    /\ pc = "calc"
    /\ latest_block = 1
    /\ start_block = -1
    /\ end_block_limit = 0
    /\ tasks = <<[fromBlock |-> 0, toBlock |-> 1]>>
    /\ all_events \in SeqsUpTo(LogsAt(1), MaxEvents)
    /\ results = <<[state |-> "ok", logs |-> all_events]>>
    /\ balances = <<>>
    /\ last_transaction_block = None
    /\ lookups = <<>>
    /\ ret = <<>>
    /\ top_balances = <<>>
    /\ dates = <<>>

NextLedger ==
    \/ CalculateBalances
    \/ SortTop

SpecLedger == InitLedger /\ [][NextLedger]_vars

InitScan ==
    /\ caller = "none"
    /\ head \in Heads(MaxScanChunks, {0, 7})
    /\ chain \in Chains(head)
    /\ \/ op = "top" /\ top_n = DEFAULT_TOP_N /\ address = ZERO_ADDRESS
       \/ op = "last" /\ top_n = DEFAULT_TOP_N /\ address \in 1..NumHolders
    /\ InitCall

Next ==
    \/ GetLastBlockOk
    \/ GetLastBlockFail
    \/ PartitionIter
    \/ PartitionExit
    \/ FetchOk
    \/ FetchFail
    \/ Join
    \/ CalculateBalances
    \/ SortTop
    \/ LastIter
    \/ LastExit
    \/ LastFetchOk
    \/ LastFetchFail
    \/ LastResolve
    \/ GetBlockOk
    \/ GetBlockFail

Spec == InitScan /\ [][Next]_vars

\* every remote call returns or fails in the end, and the event loop runs
\* whatever is ready
SpecLive == InitScan /\ [][Next]_vars /\ WF_vars(Next)

NextCancel ==
    \/ Next
    \/ Cancel

SpecCancel == InitScan /\ [][NextCancel]_vars

InitDates ==
    /\ caller = "dates"
    /\ head \in Heads(MaxScanChunks, {7})
    /\ chain \in Chains(head)
    /\ op = "top"
    /\ top_n = DEFAULT_TOP_N
    /\ address = ZERO_ADDRESS
    /\ InitCall

NextDates ==
    \/ Next
    \/ DatesTopReturned
    \/ DatesStartNext
    \/ DatesCollect
    \/ DatesReturn

SpecDates == InitDates /\ [][NextDates]_vars

\* -------------------------------------------------------------------- claims

Chunks == tasks

Floor == Max(latest_block - WINDOW, 0)

Partitioned == pc = "gather"

InChunk(b, c) == c.fromBlock <= b /\ b <= c.toBlock

\* C1: once the partition loop has ended, every block of the window
\* Floor..latest_block, the floor block included, lies in some chunk, and no
\* chunk holds a block outside the window.
C1_ChunksCoverWindow ==
    Partitioned =>
        /\ \A b \in Floor..latest_block :
              \E i \in 1..Len(Chunks) : InChunk(b, Chunks[i])
        /\ \A i \in 1..Len(Chunks) :
              Chunks[i].fromBlock >= Floor /\ Chunks[i].toBlock <= latest_block

\* C2: the chunks come newest first, each is non-empty and at most BLOCK_RANGE
\* blocks wide, each chunk ends right below the one before it, no two chunks
\* share a block, and none reaches below the window floor.
C2_ChunksWellFormed ==
    /\ \A i \in 1..Len(Chunks) :
          /\ Chunks[i].fromBlock <= Chunks[i].toBlock
          /\ Chunks[i].toBlock - Chunks[i].fromBlock + 1 <= BLOCK_RANGE
          /\ Chunks[i].fromBlock >= Floor
    /\ Len(Chunks) > 0 => Chunks[1].toBlock = latest_block
    /\ \A i \in 1..(Len(Chunks) - 1) :
          Chunks[i + 1].toBlock = Chunks[i].fromBlock - 1
    /\ \A i, j \in 1..Len(Chunks) :
          i < j => Chunks[j].toBlock < Chunks[i].fromBlock

C2_Witness ==
    /\ Partitioned
    /\ Len(Chunks) = 20
    /\ Chunks[20].toBlock - Chunks[20].fromBlock + 1 = BLOCK_RANGE

\* ---- the fetch of the chunks

GatherCall == op = "top"

LastCall == op = "last"

Failed(i) == results[i].state = "error"

\* the logs of the chunks whose fetch succeeded, in task order from task i on
RECURSIVE LogsOfSucceeded(_)
LogsOfSucceeded(i) ==
    IF i > Len(tasks) THEN <<>>
    ELSE (IF Failed(i) THEN <<>>
          ELSE LogsBetween(chain, tasks[i].fromBlock, tasks[i].toBlock))
         \o LogsOfSucceeded(i + 1)

\* C3: whichever chunk fetches fail, get_all_transfer_events leaves the gather
\* only by returning, never by raising, and what it returns is the logs of the
\* chunks whose fetch succeeded, chunk after chunk, nothing lost and nothing
\* from a failed chunk.
C3_PartialFailure ==
    /\ []((GatherCall /\ pc = "calc") => all_events = LogsOfSucceeded(1))
    /\ [][(GatherCall /\ pc = "gather") => pc' \in {"gather", "calc"}]_vars

C3_Witness ==
    /\ GatherCall
    /\ pc = "calc"
    /\ \E i \in 1..Len(tasks) : Failed(i)
    /\ \E i \in 1..Len(tasks) : ~Failed(i) /\ Len(results[i].logs) > 0
    /\ Len(all_events) > 0

\* ---- the join

Aggregating == all_events # <<>> \/ balances # <<>> \/ pc \in {"calc", "sort", "done"}

\* C14: in every interleaving of the chunk fetches, all_events is extended and
\* the balances are folded only when every chunk fetch has ended, in success
\* or in failure: while a fetch is in flight nothing is aggregated, and the
\* step that first extends all_events is taken with no fetch pending.
C14_JoinGatesAggregation ==
    /\ []((GatherCall /\ Aggregating) =>
            /\ Len(results) = Len(tasks)
            /\ \A i \in 1..Len(results) : results[i].state \in {"ok", "error"})
    /\ [][(GatherCall /\ all_events' # all_events) =>
            \A i \in 1..Len(results) : ~Pending(i)]_vars

C14_Witness ==
    /\ GatherCall
    /\ pc = "done"
    /\ Len(tasks) = 3
    /\ results[1].state = "error"
    /\ results[3].state = "ok"
    /\ Len(ret) > 0

\* ---- cancellation

WasCancelled == \E i \in 1..Len(results) : results[i].state = "cancelled"

\* C13: when the query is cancelled with chunk fetches in flight, no fetch is
\* left running, and the query yields nothing: no event list, no ledger and
\* no ranking, also not from the chunks that had completed; the call stays
\* cancelled.
C13_CancelYieldsNothing ==
    /\ [](WasCancelled =>
            /\ pc = "cancelled"
            /\ \A i \in 1..Len(results) : ~Pending(i)
            /\ all_events = <<>>
            /\ balances = <<>>
            /\ ret = <<>>)
    /\ [][pc = "cancelled" => pc' = "cancelled"]_vars

C13_Witness ==
    /\ pc = "cancelled"
    /\ WasCancelled
    /\ \E i \in 1..Len(results) : results[i].state = "ok" /\ Len(results[i].logs) > 0
    /\ \E i \in 1..Len(results) : results[i].state = "error"

\* ---- the last-activity scan

\* the chunks of the window, as the while loop cuts them
RECURSIVE WindowChunks(_, _)
WindowChunks(start, limit) ==
    IF ~LoopCond(start, limit) THEN <<>>
    ELSE <<[fromBlock |-> ChunkEnd(start, limit), toBlock |-> start]>>
         \o WindowChunks(NextStart(ChunkEnd(start, limit)), limit)

LoopLeft == LastCall /\ pc \in {"lt_resolve", "lt_block", "done"}

WellFormedChain == \A i \in 1..Len(chain) : Len(chain[i].topics) >= 3

\* the log names the address as its sender or as its receiver
Involves(log) ==
    /\ Len(log.topics) >= 3
    /\ address \in {log.topics[2][2], log.topics[3][2]}

MatchingBlocks(logs) ==
    {logs[i].blockNumber : i \in {j \in 1..Len(logs) : Involves(logs[j])}}

\* blocks of the matching logs of the chunks of the window whose fetch did not fail
ReachableActivity ==
    LET chunks == WindowChunks(latest_block, Floor)
    IN UNION {MatchingBlocks(LogsBetween(chain, chunks[i].fromBlock, chunks[i].toBlock)) :
                i \in {j \in 1..Len(chunks) : j > Len(tasks) \/ ~Failed(j)}}

\* C8: a failed fetch does not end the scan of get_last_transaction_date: when
\* the loop is left every chunk of the window has been asked for, and activity
\* in a chunk other than a failed one has been found.
C8_ScanSurvivesFailure ==
    (LoopLeft /\ WellFormedChain) =>
        /\ tasks = WindowChunks(latest_block, Floor)
        /\ ReachableActivity # {} => last_transaction_block # None

SetMax(S) == CHOOSE x \in S : \A y \in S : y <= x

FetchedActivity ==
    UNION {MatchingBlocks(results[i].logs) : i \in 1..Len(results)}

AllSucceeded ==
    /\ \A i \in 1..Len(results) : results[i].state = "ok"
    /\ \A i \in 1..Len(lookups) : lookups[i].state = "ok"

Returned == pc = "done"

\* C9: when every fetch and the block lookup succeed and some fetched log has
\* the address as sender or receiver, get_last_transaction_date returns the
\* timestamp of the highest block among those logs, block 0 included, and
\* never 'N/A'.
C9_ReturnsLastActivity ==
    (LastCall /\ Returned /\ AllSucceeded /\ WellFormedChain /\ FetchedActivity # {}) =>
        ret = IsoFormat(BlockTimestamp(SetMax(FetchedActivity)))

WindowActivity ==
    MatchingBlocks(LogsBetween(chain, Floor, latest_block))

\* C10: when every fetch succeeds and no log of the window has the address as
\* sender or receiver, get_last_transaction_date returns 'N/A': it has looked
\* up no block, and it raises nothing once it has the latest block number.
C10_NoActivityIsNA ==
    /\ (LastCall /\ Returned /\ AllSucceeded /\ WindowActivity = {}) =>
          ret = NA /\ lookups = <<>>
    /\ (LastCall /\ pc = "raised") => tasks = <<>> /\ latest_block = 0

C10_Witness ==
    /\ LastCall
    /\ Returned
    /\ AllSucceeded
    /\ WindowActivity = {}
    /\ Len(tasks) = 2
    /\ \E i \in 1..Len(results) : Len(results[i].logs) > 0
    /\ \A i \in 1..Len(chain) : HasAddressTopics(chain[i])

\* C11: the value get_last_transaction_date returns tells the three outcomes
\* apart: when a chunk fetch has failed, or the block lookup has failed, it is
\* not the value returned for no activity in the window ('N/A').
C11_OutcomesDistinct ==
    (LastCall /\ Returned
        /\ \/ \E i \in 1..Len(results) : results[i].state = "error"
           \/ \E i \in 1..Len(lookups) : lookups[i].state = "error") =>
        ret # NA

\* ---- termination of a scan

ScanStarted == pc \in {"partition", "lt_loop"}

\* every chunk of the window has been fetched, with success or with failure,
\* and the scan has handed over its result
Aggregated ==
    /\ tasks = WindowChunks(latest_block, Floor)
    /\ Len(results) = Len(tasks)
    /\ \A i \in 1..Len(results) : results[i].state \in {"ok", "error"}
    /\ \/ GatherCall /\ pc \in {"calc", "sort", "done", "raised"}
       \/ LastCall /\ pc = "done"

\* C15: when every remote call returns or fails in the end, a scan that has
\* started ends Aggregated whichever chunk fetches failed: every chunk of the
\* window has its outcome and the method has returned; no scan stops at the
\* first chunk error.
C15_ScansAggregate ==
    (ScanStarted /\ WellFormedChain) ~> Aggregated

\* ---- a failed block lookup

LookupFailed == \E i \in 1..Len(lookups) : lookups[i].state = "error"

InDates == caller = "dates"

\* C16: a failed get_block for the last block of an address with activity
\* does not make get_last_transaction_date raise: it returns 'N/A'; the only
\* raise of get_last_transaction_date comes before any fetch.  So when
\* get_top_balances_with_dates returns it has one row for every address of
\* the ranking, with that address, its balance and its date.
C16_LookupFailureDegrades ==
    /\ []((op = "last" /\ pc = "raised") => tasks = <<>>)
    /\ [][(pc = "lt_block" /\ lookups'[Len(lookups')].state = "error") =>
            (pc' = "done" /\ ret' = NA)]_vars
    /\ []((InDates /\ pc = "wd_done") =>
            /\ Len(ret) = Len(top_balances)
            /\ \A k \in 1..Len(ret) :
                  ret[k] = <<top_balances[k][1], top_balances[k][2], dates[k]>>)

C16_Witness ==
    /\ InDates
    /\ pc = "wd_done"
    /\ Len(ret) = 2
    /\ lookups # <<>>
    /\ \A i \in 1..Len(lookups) : lookups[i].state = "error"
    /\ ret[1][3] = NA

\* ---- the ledger

Calculated == pc \in {"sort", "done"} /\ op = "top"

Perms(s) ==
    {[i \in 1..Len(s) |-> s[p[i]]] : p \in Permutations(1..Len(s))}

AsMap(d) == [k \in Keys(d) |-> Get(d, k)]

RECURSIVE Sum(_)
Sum(d) == IF Len(d) = 0 THEN 0 ELSE d[1][2] + Sum(Tail(d))

\* C4: the mapping calculate_balances returns for a list of events is the one
\* it returns for every permutation of that list: same keys, same balance per
\* key.  (The ledger is read right after calculate_balances has returned.)
C4_PermutationInvariant ==
    (GatherCall /\ pc = "sort") =>
        LET ledger == AsMap(balances)
        IN \A p \in Perms(all_events) :
              LET r == calculate_balances(p)
              IN ~r.raised /\ AsMap(r.balances) = ledger

C4_Witness ==
    /\ GatherCall
    /\ pc = "sort"
    /\ Len(all_events) >= 2
    /\ all_events[1] # all_events[2]
    /\ \E k \in Keys(balances) : Get(balances, k) < 0
    /\ calculate_balances(<<all_events[2], all_events[1]>>).balances # balances

\* the token contract: holdings after the events, from an empty supply; a
\* transfer or burn of more than the sender holds cannot have happened
RECURSIVE Holdings(_, _, _)
Holdings(events, i, h) ==
    IF i > Len(events) THEN [possible |-> TRUE, h |-> h]
    ELSE LET f == FromAddress(events[i])
             t == ToAddress(events[i])
             v == ValueOf(events[i])
         IN IF f # ZERO_ADDRESS /\ h[f] < v
            THEN [possible |-> FALSE, h |-> h]
            ELSE Holdings(events, i + 1,
                    [a \in DOMAIN h |->
                        h[a] - (IF a = f THEN v ELSE 0) + (IF a = t THEN v ELSE 0)])

\* the events are a complete history of the token since genesis
CompleteHistory(events) ==
    /\ \A i \in 1..Len(events) : HasAddressTopics(events[i]) /\ HasValue(events[i])
    /\ Holdings(events, 1, [a \in 0..NumHolders |-> 0]).possible

RECURSIVE Minted(_)
Minted(events) ==
    IF Len(events) = 0 THEN 0
    ELSE Minted(Tail(events))
         + (IF FromAddress(events[1]) = ZERO_ADDRESS /\ ToAddress(events[1]) # ZERO_ADDRESS
            THEN ValueOf(events[1]) ELSE 0)

RECURSIVE Burned(_)
Burned(events) ==
    IF Len(events) = 0 THEN 0
    ELSE Burned(Tail(events))
         + (IF ToAddress(events[1]) = ZERO_ADDRESS /\ FromAddress(events[1]) # ZERO_ADDRESS
            THEN ValueOf(events[1]) ELSE 0)

\* C5 as stated: over a complete history the balances sum to zero.
C5_SumIsZero ==
    (Calculated /\ CompleteHistory(all_events)) => Sum(balances) = 0

\* C5 amended: over a complete history the balances sum to the amount
\* minted minus the amount burned, which is the supply in circulation, and no
\* balance is negative; the sum is zero only when all that was minted was burned.
C5_SumIsSupply ==
    (Calculated /\ CompleteHistory(all_events)) =>
        /\ Sum(balances) = Minted(all_events) - Burned(all_events)
        /\ \A k \in Keys(balances) : Get(balances, k) >= 0

C5_Witness ==
    /\ Calculated
    /\ CompleteHistory(all_events)
    /\ Minted(all_events) > 0
    /\ Burned(all_events) > 0
    /\ Sum(balances) > 0

\* C6: the zero address is never a key of the ledger, whatever the events:
\* mints, burns, transfers from the zero address to itself.
C6_NoZeroKey ==
    Calculated => ZERO_ADDRESS \notin Keys(balances)

C6_Witness ==
    /\ Calculated
    /\ \E i \in 1..Len(all_events) :
          FromAddress(all_events[i]) = ZERO_ADDRESS /\ ToAddress(all_events[i]) # ZERO_ADDRESS
    /\ \E i \in 1..Len(all_events) :
          ToAddress(all_events[i]) = ZERO_ADDRESS

\* ---- malformed logs

Decodable(event) == Len(event.topics) >= 3 /\ Len(event.data) > 0

RECURSIVE DecodableOnly(_)
DecodableOnly(events) ==
    IF Len(events) = 0 THEN <<>>
    ELSE (IF Decodable(events[1]) THEN <<events[1]>> ELSE <<>>)
         \o DecodableOnly(Tail(events))

\* C12: a malformed log (fewer than 3 topics, or no parsable data) is skipped
\* alone: calculate_balances does not raise, and the ledger is the ledger of
\* the same events without the malformed ones.
C12_MalformedSkipped ==
    GatherCall =>
        /\ pc # "raised"
        /\ Calculated =>
              AsMap(balances) = AsMap(calculate_balances(DecodableOnly(all_events)).balances)

\* ---- the ranking

Ranked == pc = "done" /\ op = "top"

\* C7: for n >= 0 the list get_top_balances returns is in non-increasing
\* order of balance, has min(n, |L|) items, all of them items of the ledger L,
\* none twice, and no item left out has a larger balance than an item in it.
C7_TopNSorted ==
    (Ranked /\ top_n >= 0) =>
        /\ Len(ret) = Min(top_n, Len(balances))
        /\ \A i \in 1..(Len(ret) - 1) : ret[i][2] >= ret[i + 1][2]
        /\ \A i \in 1..Len(ret) : ret[i] \in Range(balances)
        /\ \A i, j \in 1..Len(ret) : i # j => ret[i][1] # ret[j][1]
        /\ \A x \in Range(balances) \ Range(ret) :
              \A i \in 1..Len(ret) : x[2] <= ret[i][2]

C7_Witness ==
    /\ Ranked
    /\ top_n = 1
    /\ Len(balances) = 2
    /\ balances[1][2] < balances[2][2]

\* the non-zero addresses of the events in the order the fold first meets
\* them: the sender of an event before its receiver
RECURSIVE FirstSeen(_, _)
FirstSeen(events, seen) ==
    IF Len(events) = 0 THEN seen
    ELSE LET f == events[1].topics[2][2]
             t == events[1].topics[3][2]
             s1 == IF f # 0 /\ f \notin Range(seen) THEN Append(seen, f) ELSE seen
             s2 == IF t # 0 /\ t \notin Range(s1) THEN Append(s1, t) ELSE s1
         IN FirstSeen(Tail(events), s2)

Position(seq, x) == CHOOSE i \in 1..Len(seq) : seq[i] = x

\* C17: in the list get_top_balances returns, addresses of equal balance stand
\* in first-seen order, the order in which the fold over the events first
\* inserted them into the ledger.
C17_TiesFirstSeen ==
    Ranked =>
        LET order == FirstSeen(all_events, <<>>)
        IN \A i, j \in 1..Len(ret) :
              (i < j /\ ret[i][2] = ret[j][2]) =>
                  Position(order, ret[i][1]) < Position(order, ret[j][1])

C17_Witness ==
    /\ Ranked
    /\ Len(ret) = 2
    /\ ret[1][2] = ret[2][2]
    /\ ret[1][1] > ret[2][1]

\* C18: for every list of events the balances sum to the amount minted (from
\* the zero address to a holder) minus the amount burned (from a holder to
\* the zero address); every event between two holders, and every event from
\* the zero address to itself, leaves the sum as it was.
C18_SumIsMintsMinusBurns ==
    (GatherCall /\ pc = "sort") =>
        /\ Sum(balances) = Minted(all_events) - Burned(all_events)
        /\ \A i \in 1..Len(all_events) :
              LET f == all_events[i].topics[2][2]
                  t == all_events[i].topics[3][2]
                  before == calculate_balances(SubSeq(all_events, 1, i - 1)).balances
                  after == calculate_balances(SubSeq(all_events, 1, i)).balances
              IN (f = 0) = (t = 0) => Sum(after) = Sum(before)

C18_Witness ==
    /\ GatherCall
    /\ pc = "sort"
    /\ Len(all_events) = 2
    /\ Minted(all_events) > 0
    /\ Sum(balances) = Minted(all_events)
    /\ \E k \in Keys(balances) : Get(balances, k) < 0

\* ---- termination of the partition loop

\* ceil(WINDOW / BLOCK_RANGE)
MaxChunkCount == (WINDOW + BLOCK_RANGE - 1) \div BLOCK_RANGE

InLoop == pc \in {"partition", "lt_loop", "lt_fetch"}

\* C19: the partition loop ends: every iteration lowers start_block, there are
\* never more than ceil(WINDOW / BLOCK_RANGE) = 20 chunks, none at all when
\* the latest block is 0, and the loop is left in the end.
C19_LoopTerminates ==
    /\ [](Len(tasks) <= MaxChunkCount /\ MaxChunkCount = 20)
    /\ []((~InLoop /\ pc # "start" /\ latest_block = 0) => Len(tasks) = 0)
    /\ [][(InLoop /\ start_block' # start_block) =>
            (start_block' < start_block /\ start_block' >= end_block_limit - 1)]_vars
    /\ (InLoop ~> ~InLoop)

C19_Witness ==
    /\ pc = "gather"
    /\ Len(tasks) = 20
    /\ latest_block > WINDOW
    /\ start_block = end_block_limit

====
